---------------------------- MODULE Spec2Model ----------------------------
(***************************************************************************)
(* Model of options-pricing/core/instruments.py: the OptionType and        *)
(* OptionStyle parsers, the Underlying and option value objects, and the   *)
(* year_fraction day-count engine.                                         *)
(*                                                                         *)
(* Python values are records tagged with their type.  A str is the         *)
(* sequence of its characters, so that lower(), upper() and strip() are    *)
(* computed and not assumed.  A float result n / 365.0 is kept as the pair *)
(* (num, den): its sign and its being zero are those of num.               *)
(***************************************************************************)
EXTENDS Integers, Sequences, FiniteSets

VARIABLES und, opt, call

vars == <<und, opt, call>>

-----------------------------------------------------------------------------
(* Bounds of the model *)

\* longest generated input string (curated longer strings are added to them)
MaxStrLen == 2

\* last calendar year of the dates drawn as inputs (the first is 2024)
MaxYear == 2025

\* largest spot, strike and notional drawn as inputs (the smallest is -1)
MaxAmount == 2

-----------------------------------------------------------------------------
(* Python values *)

NoneVal == [type |-> "NoneType"]

Str(s) == [type |-> "str", s |-> s]

Date(y, m, d) == [type |-> "date", year |-> y, month |-> m, day |-> d]

Float(n, d) == [type |-> "float", num |-> n, den |-> d]

\* isinstance(v, date)
IsDate(v) == v.type = "date"

\* isinstance(v, str): OptionType and OptionStyle are str subclasses
IsStr(v) == v.type \in {"str", "OptionType", "OptionStyle"}

\* outcome of a call: a returned value or a raised exception
Return(v) == [kind |-> "return", val |-> v, exc |-> NoneVal]

Raise(e) == [kind |-> "raise", val |-> NoneVal, exc |-> e]

\* exception of class cls whose message is text followed by repr(arg)
Exc(cls, text, arg) == [type |-> cls, text |-> text, arg |-> arg]

Returned(out) == out.kind = "return"

Raised(out, cls) == out.kind = "raise" /\ out.exc.type = cls

-----------------------------------------------------------------------------
(* str methods *)

UpperLetters ==
    <<"A", "B", "C", "D", "E", "F", "G", "H", "I", "J", "K", "L", "M",
      "N", "O", "P", "Q", "R", "S", "T", "U", "V", "W", "X", "Y", "Z">>

LowerLetters ==
    <<"a", "b", "c", "d", "e", "f", "g", "h", "i", "j", "k", "l", "m",
      "n", "o", "p", "q", "r", "s", "t", "u", "v", "w", "x", "y", "z">>

Whitespace == {" ", "\t", "\n"}

LowerChar(c) ==
    IF \E i \in 1..Len(UpperLetters) : UpperLetters[i] = c
    THEN LowerLetters[CHOOSE i \in 1..Len(UpperLetters) : UpperLetters[i] = c]
    ELSE c

UpperChar(c) ==
    IF \E i \in 1..Len(LowerLetters) : LowerLetters[i] = c
    THEN UpperLetters[CHOOSE i \in 1..Len(LowerLetters) : LowerLetters[i] = c]
    ELSE c

\* str.lower()
lower(s) == [i \in 1..Len(s) |-> LowerChar(s[i])]

\* str.upper()
upper(s) == [i \in 1..Len(s) |-> UpperChar(s[i])]

\* str.strip()
strip(s) ==
    LET keep == {i \in 1..Len(s) : s[i] \notin Whitespace}
    IN  IF keep = {} THEN <<>>
        ELSE SubSeq(s, CHOOSE i \in keep : \A j \in keep : i <= j,
                       CHOOSE i \in keep : \A j \in keep : j <= i)

-----------------------------------------------------------------------------
(* Enumerations *)

CALL == [type |-> "OptionType", s |-> <<"c", "a", "l", "l">>]

PUT == [type |-> "OptionType", s |-> <<"p", "u", "t">>]

EUROPEAN == [type |-> "OptionStyle", s |-> <<"e", "u", "r", "o", "p", "e", "a", "n">>]

AMERICAN == [type |-> "OptionStyle", s |-> <<"a", "m", "e", "r", "i", "c", "a", "n">>]

BERMUDAN == [type |-> "OptionStyle", s |-> <<"b", "e", "r", "m", "u", "d", "a", "n">>]

\* mutant: aliases matched by their first letter
OptionType_from_str_prefix(value) ==
    LET v == strip(lower(value.s))
    IN  IF v # <<>> /\ v[1] = "c" THEN Return(CALL)
        ELSE IF v # <<>> /\ v[1] = "p" THEN Return(PUT)
        ELSE Raise(Exc("ValueError", "Unknown option type: ", Str(v)))

\* OptionType.from_str(value): value is rebound to its normalised form,
\* which is what the error message then shows
OptionType_from_str(value) ==
    LET v == strip(lower(value.s))
    IN  IF v \in {<<"c">>, <<"c", "a", "l", "l">>} THEN Return(CALL)
        ELSE IF v \in {<<"p">>, <<"p", "u", "t">>} THEN Return(PUT)
        ELSE Raise(Exc("ValueError", "Unknown option type: ", Str(v)))

\* OptionStyle.from_str(value)
OptionStyle_from_str(value) ==
    LET v == strip(lower(value.s))
    IN  IF v \in {<<"e">>, <<"e", "u", "r", "o">>,
                  <<"e", "u", "r", "o", "p", "e", "a", "n">>}
        THEN Return(EUROPEAN)
        ELSE IF v \in {<<"a">>, <<"a", "m", "e", "r">>,
                       <<"a", "m", "e", "r", "i", "c", "a", "n">>}
        THEN Return(AMERICAN)
        ELSE IF v \in {<<"b">>, <<"b", "e", "r", "m", "u", "d", "a", "n">>}
        THEN Return(BERMUDAN)
        ELSE Raise(Exc("ValueError", "Unknown option style: ", Str(v)))

-----------------------------------------------------------------------------
(* datetime.date: the proleptic Gregorian calendar *)

is_leap(y) == y % 4 = 0 /\ (y % 100 # 0 \/ y % 400 = 0)

days_in_month(y, m) ==
    IF m = 2 THEN (IF is_leap(y) THEN 29 ELSE 28)
    ELSE IF m \in {4, 6, 9, 11} THEN 30
    ELSE 31

\* number of days before January 1st of year y
days_before_year(y) ==
    (y - 1) * 365 + (y - 1) \div 4 - (y - 1) \div 100 + (y - 1) \div 400

RECURSIVE days_before_month(_, _)
\* number of days of year y before the first day of month m
days_before_month(y, m) ==
    IF m = 1 THEN 0
    ELSE days_before_month(y, m - 1) + days_in_month(y, m - 1)

\* date.toordinal()
toordinal(d) == days_before_year(d.year) + days_before_month(d.year, d.month) + d.day

\* (end - start).days
days_between(start, end) == toordinal(end) - toordinal(start)

\* a date object exists only for a day of the month that the calendar has
ValidDate(d) ==
    /\ d.month \in 1..12
    /\ d.day \in 1..days_in_month(d.year, d.month)

\* start < end on dates
DateLess(a, b) ==
    \/ a.year < b.year
    \/ a.year = b.year /\ a.month < b.month
    \/ a.year = b.year /\ a.month = b.month /\ a.day < b.day

-----------------------------------------------------------------------------
(* Day-count engine *)

ACT_365 == <<"A", "C", "T", "/", "3", "6", "5">>

ACT_360 == <<"A", "C", "T", "/", "3", "6", "0">>

THIRTY_360 == <<"3", "0", "/", "3", "6", "0">>

Min(a, b) == IF a <= b THEN a ELSE b

\* mutant: the full US rule, which sets d2 to 30 only when d1 is 30 or 31
days_30_360_us(start, end) ==
    LET d1 == Min(start.day, 30)
        d2 == IF end.day = 31 /\ d1 = 30 THEN 30 ELSE end.day
    IN  (end.year - start.year) * 360 + (end.month - start.month) * 30 + (d2 - d1)

\* the 30/360 day count: days of the month clamped to 30, nothing else
days_30_360(start, end) ==
    LET d1 == Min(start.day, 30)
        d2 == Min(end.day, 30)
    IN  (end.year - start.year) * 360 + (end.month - start.month) * 30 + (d2 - d1)

\* mutant: the convention name is compared as supplied
year_fraction_case_sensitive(start, end, day_count) ==
    IF ~IsDate(start) \/ ~IsDate(end)
    THEN Raise(Exc("TypeError", "start and end must be datetime.date instances.", NoneVal))
    ELSE IF day_count.s = ACT_365 THEN Return(Float(days_between(start, end), 365))
    ELSE IF day_count.s = ACT_360 THEN Return(Float(days_between(start, end), 360))
    ELSE IF day_count.s = THIRTY_360 THEN Return(Float(days_30_360(start, end), 360))
    ELSE Raise(Exc("ValueError", "Unsupported day count convention: ", day_count))

\* mutant: the magnitude of the span, whatever the order of the dates
year_fraction_abs(start, end, day_count) ==
    LET dc == upper(day_count.s)
        abs(n) == IF n < 0 THEN -n ELSE n
    IN  IF ~IsDate(start) \/ ~IsDate(end)
        THEN Raise(Exc("TypeError", "start and end must be datetime.date instances.", NoneVal))
        ELSE IF dc = ACT_365 THEN Return(Float(abs(days_between(start, end)), 365))
        ELSE IF dc = ACT_360 THEN Return(Float(abs(days_between(start, end)), 360))
        ELSE IF dc = THIRTY_360 THEN Return(Float(abs(days_30_360(start, end)), 360))
        ELSE Raise(Exc("ValueError", "Unsupported day count convention: ", day_count))

\* mutant: ACT/360 counted in stylised 30-day months
year_fraction_act360_stylised(start, end, day_count) ==
    LET dc == upper(day_count.s)
    IN  IF ~IsDate(start) \/ ~IsDate(end)
        THEN Raise(Exc("TypeError", "start and end must be datetime.date instances.", NoneVal))
        ELSE IF dc = ACT_365 THEN Return(Float(days_between(start, end), 365))
        ELSE IF dc = ACT_360 THEN Return(Float(days_30_360(start, end), 360))
        ELSE IF dc = THIRTY_360 THEN Return(Float(days_30_360(start, end), 360))
        ELSE Raise(Exc("ValueError", "Unsupported day count convention: ", day_count))

\* year_fraction(start, end, day_count)
year_fraction(start, end, day_count) ==
    LET dc == upper(day_count.s)
    IN  IF ~IsDate(start) \/ ~IsDate(end)
        THEN Raise(Exc("TypeError", "start and end must be datetime.date instances.", NoneVal))
        ELSE IF dc = ACT_365 THEN Return(Float(days_between(start, end), 365))
        ELSE IF dc = ACT_360 THEN Return(Float(days_between(start, end), 360))
        ELSE IF dc = THIRTY_360 THEN Return(Float(days_30_360(start, end), 360))
        ELSE Raise(Exc("ValueError", "Unsupported day count convention: ", day_count))

-----------------------------------------------------------------------------
(* Value objects *)

\* mutant: a spot of zero is let through
Underlying_new_zero_ok(symbol, spot, currency, asset_type) ==
    IF spot < 0
    THEN Raise(Exc("ValueError", "Underlying spot must be strictly positive.", NoneVal))
    ELSE Return([type |-> "Underlying", symbol |-> symbol, spot |-> spot,
                 currency |-> currency, asset_type |-> asset_type])

\* Underlying(symbol, spot, currency, asset_type): the generated __init__
\* stores the four fields, then __post_init__ checks the spot
Underlying_new(symbol, spot, currency, asset_type) ==
    IF spot <= 0
    THEN Raise(Exc("ValueError", "Underlying spot must be strictly positive.", NoneVal))
    ELSE Return([type |-> "Underlying", symbol |-> symbol, spot |-> spot,
                 currency |-> currency, asset_type |-> asset_type])

\* BaseOption.__post_init__(self)
BaseOption_post_init(self) ==
    IF self.strike <= 0
    THEN Raise(Exc("ValueError", "Strike must be strictly positive.", NoneVal))
    ELSE IF self.maturity = NoneVal
    THEN Raise(Exc("ValueError", "Maturity date must be provided.", NoneVal))
    ELSE IF self.notional <= 0
    THEN Raise(Exc("ValueError", "Notional must be strictly positive.", NoneVal))
    ELSE Return(NoneVal)

\* the body shared by the two concrete constructors, which differ in the
\* class of the object and in the style they set
Option_init(cls, style, underlying, strike, maturity, option_type, notional) ==
    LET parsed == IF IsStr(option_type)
                  THEN OptionType_from_str(option_type)
                  ELSE Return(option_type)
    IN  IF ~Returned(parsed) THEN parsed
        ELSE LET self == [type |-> cls, underlying |-> underlying,
                          strike |-> strike, maturity |-> maturity,
                          option_type |-> parsed.val, style |-> style,
                          notional |-> notional]
                 checked == BaseOption_post_init(self)
             IN  IF Returned(checked) THEN Return(self) ELSE checked

\* EuropeanOption(underlying, strike, maturity, option_type, notional)
EuropeanOption_new(underlying, strike, maturity, option_type, notional) ==
    Option_init("EuropeanOption", EUROPEAN,
                underlying, strike, maturity, option_type, notional)

\* mutant: the style left as in the constructor this one was copied from
AmericanOption_new_copied(underlying, strike, maturity, option_type, notional) ==
    Option_init("AmericanOption", EUROPEAN,
                underlying, strike, maturity, option_type, notional)

\* AmericanOption(underlying, strike, maturity, option_type, notional)
AmericanOption_new(underlying, strike, maturity, option_type, notional) ==
    Option_init("AmericanOption", AMERICAN,
                underlying, strike, maturity, option_type, notional)

\* mutant: the span is taken from maturity to the valuation date
time_to_maturity_reversed(self, valuation_date, day_count) ==
    IF ~IsDate(valuation_date)
    THEN Raise(Exc("TypeError", "valuation_date must be a datetime.date instance.", NoneVal))
    ELSE year_fraction(self.maturity, valuation_date, day_count)

\* BaseOption.time_to_maturity(self, valuation_date, day_count)
time_to_maturity(self, valuation_date, day_count) ==
    IF ~IsDate(valuation_date)
    THEN Raise(Exc("TypeError", "valuation_date must be a datetime.date instance.", NoneVal))
    ELSE year_fraction(valuation_date, self.maturity, day_count)

-----------------------------------------------------------------------------
(* Inputs *)

InputChars == {"c", "P", "e", "A", " ", "x"}

\* every string over InputChars of at most MaxStrLen characters
GeneratedTexts == UNION {[1..n -> InputChars] : n \in 0..MaxStrLen}

AliasTexts ==
    { <<"c", "a", "l", "l">>, <<"C", "A", "L", "L">>,
      <<" ", "C", "a", "l", "l", "\t">>, <<"p", "u", "t">>,
      <<"P", "u", "T", " ">>, <<"\n", "p">>,
      <<"e", "u", "r", "o">>, <<"E", "U", "R", "O", "P", "E", "A", "N">>,
      <<"e", "u", "r", "o", "p", "e", "a", "n">>,
      <<"a">>, <<" ", "A", "m", "e", "r">>,
      <<"a", "m", "e", "r", "i", "c", "a", "n">>,
      <<"B">>, <<"b", "e", "r", "m", "u", "d", "a", "n">> }

OtherTexts ==
    { <<"x", "y", "z">>, <<"X", "Y", "Z">>, <<" ", "X", "y", "z", " ">>,
      <<"c", "a", "l", "l", "s">>, <<"c", " ", "a", "l", "l">>,
      <<"c", "a">>, <<"P", "U">>, <<"b", "e", "r", "m">>,
      <<"E", "u", "r">>, <<"a", "m", "e", "r", "i", "c", "a">> }

TextInputs == GeneratedTexts \cup AliasTexts \cup OtherTexts

InputMonths == {1, 2, 3, 7, 12}

InputDays == {1, 28, 29, 30, 31}

\* the calendar dates drawn as start, end and valuation dates
DateInputs ==
    {d \in {Date(y, m, dd) : y \in 2024..MaxYear, m \in InputMonths, dd \in InputDays} :
        ValidDate(d)}

\* values that are not dates
NonDates == {NoneVal, Str(<<"2", "0", "2", "5", "-", "0", "1", "-", "0", "1">>)}

DayCountInputs ==
    { ACT_365, ACT_360, THIRTY_360,
      <<"a", "c", "t", "/", "3", "6", "5">>, <<"A", "c", "t", "/", "3", "6", "0">>,
      <<"A", "C", "T", "/", "4", "0", "0">>, <<"a", "c", "t", "/", "4", "0", "0">>,
      <<"3", "0", "/", "3", "6", "5">>, <<" ", "A", "C", "T", "/", "3", "6", "5">>,
      <<>> }

Amounts == -1..MaxAmount

SymbolInputs == {<<"A", "A", "P", "L">>, <<" ", "s", "p", "x", " ">>}

CurrencyInputs == {<<"E", "U", "R">>, <<"u", "s", "d">>}

AssetTypeInputs == {<<"e", "q", "u", "i", "t", "y">>, <<"F", "X", " ">>}

MaturityInputs ==
    {Date(2024, 2, 29), Date(2024, 12, 31), Date(2025, 1, 1)} \cup NonDates

ValuationInputs ==
    {Date(2024, 1, 31), Date(2024, 12, 31), Date(2025, 1, 1), Date(2025, 3, 1)}
        \cup NonDates

OptionTypeInputs ==
    { CALL, PUT, EUROPEAN, Str(<<"p">>), Str(<<" ", "C", "a", "l", "l", "\t">>),
      Str(<<"x", "y", "z">>) }

OptionDayCounts ==
    { ACT_365, <<"a", "c", "t", "/", "3", "6", "0">>, THIRTY_360,
      <<"A", "C", "T", "/", "4", "0", "0">> }

-----------------------------------------------------------------------------
(* State: und and opt are the Underlying and the option the caller holds   *)
(* (None until a construction succeeds); call is the call the caller       *)
(* makes: its function, its arguments, its outcome once it has run, and,   *)
(* for a call made on the result or the arguments of the call before it,   *)
(* that call's outcome.                                                    *)

Pending == [kind |-> "pending", val |-> NoneVal, exc |-> NoneVal]

NoCall == [fn |-> "none", args |-> NoneVal, out |-> Pending,
           chain |-> "none", prev |-> Pending]

Call(fn, args, out) ==
    [fn |-> fn, args |-> args, out |-> out, chain |-> "none", prev |-> Pending]

Chained(fn, args, out, how) ==
    [fn |-> fn, args |-> args, out |-> out, chain |-> how, prev |-> call.out]

Done == call.out # Pending

(* ---- the parsers ---- *)

ParseOptionType ==
    /\ call.fn = "OptionType.from_str"
    /\ ~Done
    /\ call' = [call EXCEPT !.out = OptionType_from_str(call.args.value)]
    /\ UNCHANGED <<und, opt>>

\* OptionType.from_str(OptionType.from_str(x).value)
ReparseOptionType ==
    /\ call.fn = "OptionType.from_str"
    /\ Returned(call.out)
    /\ call.chain = "none"
    /\ call' = Chained("OptionType.from_str", [value |-> Str(call.out.val.s)],
                       OptionType_from_str(Str(call.out.val.s)), "value")
    /\ UNCHANGED <<und, opt>>

ParseOptionStyle ==
    /\ call.fn = "OptionStyle.from_str"
    /\ ~Done
    /\ call' = [call EXCEPT !.out = OptionStyle_from_str(call.args.value)]
    /\ UNCHANGED <<und, opt>>

InitParse ==
    /\ und = NoneVal
    /\ opt = NoneVal
    /\ \E s \in TextInputs, fn \in {"OptionType.from_str", "OptionStyle.from_str"} :
           call = Call(fn, [value |-> Str(s)], Pending)

NextParse == ParseOptionType \/ ReparseOptionType \/ ParseOptionStyle

SpecParse == InitParse /\ [][NextParse]_vars

(* ---- the day-count engine ---- *)

YearFraction ==
    /\ call.fn = "year_fraction"
    /\ ~Done
    /\ call' = [call EXCEPT !.out = year_fraction(call.args.start, call.args.end,
                                                  call.args.day_count)]
    /\ UNCHANGED <<und, opt>>

\* year_fraction(b, a, conv) after year_fraction(a, b, conv)
YearFractionBack ==
    /\ call.fn = "year_fraction"
    /\ Done
    /\ call.chain = "none"
    /\ call' = Chained("year_fraction",
                       [start |-> call.args.end, end |-> call.args.start,
                        day_count |-> call.args.day_count],
                       year_fraction(call.args.end, call.args.start, call.args.day_count),
                       "swapped")
    /\ UNCHANGED <<und, opt>>

InitYearFraction ==
    /\ und = NoneVal
    /\ opt = NoneVal
    /\ \E start \in DateInputs \cup NonDates, end \in DateInputs \cup NonDates,
          dc \in DayCountInputs :
           call = Call("year_fraction",
                       [start |-> start, end |-> end, day_count |-> Str(dc)], Pending)

NextYearFraction == YearFraction \/ YearFractionBack

SpecYearFraction == InitYearFraction /\ [][NextYearFraction]_vars

(* ---- Underlying ---- *)

NewUnderlying ==
    \E symbol \in SymbolInputs, spot \in Amounts,
       currency \in CurrencyInputs, asset_type \in AssetTypeInputs :
        LET out == Underlying_new(Str(symbol), spot, Str(currency), Str(asset_type))
        IN  /\ call' = Call("Underlying",
                            [symbol |-> Str(symbol), spot |-> spot,
                             currency |-> Str(currency), asset_type |-> Str(asset_type)],
                            out)
            /\ und' = IF Returned(out) THEN out.val ELSE und
            /\ UNCHANGED opt

InitUnderlying == und = NoneVal /\ opt = NoneVal /\ call = NoCall

NextUnderlying == NewUnderlying

SpecUnderlying == InitUnderlying /\ [][NextUnderlying]_vars

(* ---- options ---- *)

NewEuropeanOption ==
    /\ call.fn = "EuropeanOption"
    /\ ~Done
    /\ LET out == EuropeanOption_new(call.args.underlying, call.args.strike,
                                     call.args.maturity, call.args.option_type,
                                     call.args.notional)
       IN  /\ call' = [call EXCEPT !.out = out]
           /\ opt' = IF Returned(out) THEN out.val ELSE opt
    /\ UNCHANGED und

NewAmericanOption ==
    /\ call.fn = "AmericanOption"
    /\ ~Done
    /\ LET out == AmericanOption_new(call.args.underlying, call.args.strike,
                                     call.args.maturity, call.args.option_type,
                                     call.args.notional)
       IN  /\ call' = [call EXCEPT !.out = out]
           /\ opt' = IF Returned(out) THEN out.val ELSE opt
    /\ UNCHANGED und

TimeToMaturity ==
    /\ opt # NoneVal
    /\ \E valuation_date \in ValuationInputs, dc \in OptionDayCounts :
           call' = Call("time_to_maturity",
                        [self |-> opt, valuation_date |-> valuation_date,
                         day_count |-> Str(dc)],
                        time_to_maturity(opt, valuation_date, Str(dc)))
    /\ UNCHANGED <<und, opt>>

\* the caller holds an Underlying and writes an option on it
Init ==
    /\ und \in {Underlying_new(Str(s), 1, Str(<<"E", "U", "R">>),
                               Str(<<"e", "q", "u", "i", "t", "y">>)).val :
                    s \in SymbolInputs}
    /\ opt = NoneVal
    /\ \E fn \in {"EuropeanOption", "AmericanOption"},
          strike \in Amounts, maturity \in MaturityInputs,
          option_type \in OptionTypeInputs, notional \in Amounts :
           call = Call(fn, [underlying |-> und, strike |-> strike,
                            maturity |-> maturity, option_type |-> option_type,
                            notional |-> notional], Pending)

Next == NewEuropeanOption \/ NewAmericanOption \/ TimeToMaturity

Spec == Init /\ [][Next]_vars

-----------------------------------------------------------------------------
(* Vocabulary of the properties, stated without the code's normalisation   *)

\* s is alias a in some casing, between any leading and trailing whitespace
IsAlias(s, a) ==
    \E i \in 1..Len(s) :
        LET j == i + Len(a) - 1
        IN  /\ j <= Len(s)
            /\ \A k \in 1..Len(s) : (k < i \/ k > j) => s[k] \in Whitespace
            /\ \A k \in 1..Len(a) : s[i + k - 1] \in {a[k], UpperChar(a[k])}

CallAliases == {<<"c">>, <<"c", "a", "l", "l">>}

PutAliases == {<<"p">>, <<"p", "u", "t">>}

IsAnyAlias(s, aliases) == \E a \in aliases : IsAlias(s, a)

\* dc is the convention name in some casing
IsName(dc, name) ==
    /\ Len(dc) = Len(name)
    /\ \A k \in 1..Len(name) : dc[k] \in {name[k], LowerChar(name[k])}

Conventions == {ACT_365, ACT_360, THIRTY_360}

Supported(dc) == \E name \in Conventions : IsName(dc, name)

Basis(name) == IF name = ACT_365 THEN 365 ELSE 360

RECURSIVE DaysOfMonths(_, _, _, _)
\* total length of the months from (y1, m1) up to, not including, (y2, m2)
DaysOfMonths(y1, m1, y2, m2) ==
    IF y1 = y2 /\ m1 = m2 THEN 0
    ELSE days_in_month(y1, m1)
         + (IF m1 = 12 THEN DaysOfMonths(y1 + 1, 1, y2, m2)
                       ELSE DaysOfMonths(y1, m1 + 1, y2, m2))

\* calendar days from a to b, counted month by month; negative when b < a
CalendarDays(a, b) ==
    IF DateLess(b, a)
    THEN -(DaysOfMonths(b.year, b.month, a.year, a.month) + a.day - b.day)
    ELSE DaysOfMonths(a.year, a.month, b.year, b.month) + b.day - a.day

\* a finished year_fraction call on two dates
YearFractionOnDates ==
    /\ call.fn = "year_fraction"
    /\ Done
    /\ IsDate(call.args.start)
    /\ IsDate(call.args.end)

-----------------------------------------------------------------------------
(* Properties of the parsers, under SpecParse *)

\* C5: OptionType.from_str maps every casing of "c"/"call", with any
\* surrounding whitespace, to CALL and of "p"/"put" to PUT; every other
\* string raises ValueError; and parsing the value of a parsed member gives
\* that member again.
C5_FromStrTotalIdempotent ==
    (call.fn = "OptionType.from_str" /\ Done) =>
        LET x == call.args.value.s
        IN  /\ IsAnyAlias(x, CallAliases) => call.out = Return(CALL)
            /\ IsAnyAlias(x, PutAliases) => call.out = Return(PUT)
            /\ ~IsAnyAlias(x, CallAliases \cup PutAliases)
                   => Raised(call.out, "ValueError")
            /\ call.chain = "value" => call.out = call.prev

\* C5: "PuT " has been parsed to PUT and PUT's value parsed to PUT again
C5_Witness ==
    /\ call.fn = "OptionType.from_str"
    /\ call.chain = "value"
    /\ call.prev = Return(PUT)
    /\ call.out = Return(PUT)

\* C6: the ValueError of a failed from_str carries the input exactly as the
\* caller supplied it.
C6_ErrorCarriesOriginalInput ==
    (/\ call.fn \in {"OptionType.from_str", "OptionStyle.from_str"}
     /\ Raised(call.out, "ValueError"))
        => call.out.exc.arg = call.args.value

-----------------------------------------------------------------------------
(* Properties of the day-count engine, under SpecYearFraction *)

\* C1 as stated: under each of the three conventions the year fraction of
\* start < end is strictly positive and that of start > end strictly
\* negative.
C1_StrictSign ==
    (YearFractionOnDates /\ Supported(call.args.day_count.s)) =>
        /\ Returned(call.out)
        /\ DateLess(call.args.start, call.args.end) => call.out.val.num > 0
        /\ DateLess(call.args.end, call.args.start) => call.out.val.num < 0

\* start and end lie in one month, each on its 30th or 31st day
SameMonthEnd(a, b) ==
    /\ a.year = b.year
    /\ a.month = b.month
    /\ a.day >= 30
    /\ b.day >= 30

\* C1: under ACT/365 and ACT/360 the year fraction of start < end is
\* strictly positive and that of start > end strictly negative; under 30/360
\* the same holds, except that the 30th and the 31st of one month are zero
\* apart.
C1_SignProperty ==
    (YearFractionOnDates /\ Supported(call.args.day_count.s)) =>
        LET a == call.args.start
            b == call.args.end
            flat == IsName(call.args.day_count.s, THIRTY_360) /\ SameMonthEnd(a, b)
        IN  /\ Returned(call.out)
            /\ flat => call.out.val.num = 0
            /\ (~flat /\ DateLess(a, b)) => call.out.val.num > 0
            /\ (~flat /\ DateLess(b, a)) => call.out.val.num < 0

\* C1: 30/360 has been applied to the 30th and the 31st of one month
C1_Witness ==
    /\ YearFractionOnDates
    /\ IsName(call.args.day_count.s, THIRTY_360)
    /\ DateLess(call.args.start, call.args.end)
    /\ SameMonthEnd(call.args.start, call.args.end)
    /\ call.out = Return(Float(0, 360))

\* C7: year_fraction returns the convention's day count over its basis:
\* the calendar days from start to end over 365 or 360, and for 30/360
\* 360 a year, 30 a month and the days clamped to 30, over 360; 2024-01-01
\* to 2025-01-01 is 366/365 and 2024-01-01 to 2024-07-01 is 180/360.
C7_DayCountOverBasis ==
    YearFractionOnDates =>
        LET a == call.args.start
            b == call.args.end
            dc == call.args.day_count.s
            clamp(d) == IF d > 30 THEN 30 ELSE d
        IN  /\ IsName(dc, ACT_365) => call.out = Return(Float(CalendarDays(a, b), 365))
            /\ IsName(dc, ACT_360) => call.out = Return(Float(CalendarDays(a, b), 360))
            /\ IsName(dc, THIRTY_360) =>
                   call.out = Return(Float((b.year - a.year) * 360
                                           + (b.month - a.month) * 30
                                           + (clamp(b.day) - clamp(a.day)), 360))
            /\ (a = Date(2024, 1, 1) /\ b = Date(2025, 1, 1) /\ dc = ACT_365)
                   => call.out = Return(Float(366, 365))
            /\ (a = Date(2024, 1, 1) /\ b = Date(2024, 7, 1) /\ dc = THIRTY_360)
                   => call.out = Return(Float(180, 360))
            /\ (a = Date(2024, 2, 29) /\ b = Date(2024, 3, 31) /\ dc = THIRTY_360)
                   => call.out = Return(Float(31, 360))

\* C7: ACT/365 has been applied to the leap year 2024
C7_Witness ==
    /\ YearFractionOnDates
    /\ call.args.start = Date(2024, 1, 1)
    /\ call.args.end = Date(2025, 1, 1)
    /\ call.args.day_count.s = ACT_365
    /\ call.out = Return(Float(366, 365))

\* C8: on two dates, a day_count that is ACT/365, ACT/360 or 30/360 in any
\* casing gives what the upper-case name gives, and any other day_count
\* raises ValueError whose message shows the day_count as supplied.
C8_ConventionMatching ==
    YearFractionOnDates =>
        LET dc == call.args.day_count
        IN  /\ \A name \in Conventions :
                   IsName(dc.s, name) =>
                       /\ Returned(call.out)
                       /\ call.out.val.den = Basis(name)
                       /\ call.out = year_fraction(call.args.start, call.args.end,
                                                   Str(name))
            /\ ~Supported(dc.s) =>
                   call.out = Raise(Exc("ValueError",
                                        "Unsupported day count convention: ", dc))

\* C8: "act/400" has been refused, and the error shows it in lower case
C8_Witness ==
    /\ YearFractionOnDates
    /\ call.args.day_count.s = <<"a", "c", "t", "/", "4", "0", "0">>
    /\ Raised(call.out, "ValueError")
    /\ call.out.exc.arg = call.args.day_count

\* C10: the day count from b to a is the negation of the day count from a
\* to b under each convention, and the day count from a to a is zero.
C10_Antisymmetry ==
    (YearFractionOnDates /\ Returned(call.out)) =>
        /\ call.chain = "swapped" =>
               /\ Returned(call.prev)
               /\ call.out.val.num = -call.prev.val.num
               /\ call.out.val.den = call.prev.val.den
        /\ call.args.start = call.args.end => call.out.val.num = 0

\* C10: 30/360 has been applied both ways to a 31st and a later 1st
C10_Witness ==
    /\ YearFractionOnDates
    /\ call.chain = "swapped"
    /\ IsName(call.args.day_count.s, THIRTY_360)
    /\ call.args.end.day = 31
    /\ call.args.start.day = 1
    /\ call.prev.val.num > 0
    /\ call.out.val.num = -call.prev.val.num

-----------------------------------------------------------------------------
(* Properties of Underlying, under SpecUnderlying *)

\* C4: Underlying(...) succeeds for every spot > 0 and raises ValueError
\* for every spot <= 0; on success the object holds symbol, spot, currency
\* and asset_type exactly as they were passed.
C4_UnderlyingConstruction ==
    call.fn = "Underlying" =>
        /\ call.args.spot > 0 =>
               /\ Returned(call.out)
               /\ und = call.out.val
               /\ und.symbol = call.args.symbol
               /\ und.spot = call.args.spot
               /\ und.currency = call.args.currency
               /\ und.asset_type = call.args.asset_type
        /\ call.args.spot <= 0 =>
               /\ Raised(call.out, "ValueError")
               /\ und # NoneVal => und.spot > 0

\* C4: a spot of zero has been refused while an Underlying built before,
\* with its untrimmed symbol and lower-case currency, is still held
C4_Witness ==
    /\ call.fn = "Underlying"
    /\ call.args.spot = 0
    /\ Raised(call.out, "ValueError")
    /\ und # NoneVal
    /\ und.symbol = Str(<<" ", "s", "p", "x", " ">>)
    /\ und.currency = Str(<<"u", "s", "d">>)

-----------------------------------------------------------------------------
(* Properties of the options, under Spec *)

IsConstructor(fn) == fn \in {"EuropeanOption", "AmericanOption"}

StyleOf(cls) == IF cls = "EuropeanOption" THEN EUROPEAN ELSE AMERICAN

\* an OptionType member, or a str that is one of its aliases
ValidOptionType(v) ==
    \/ v \in {CALL, PUT}
    \/ v.type = "str" /\ IsAnyAlias(v.s, CallAliases \cup PutAliases)

\* C2: an option that exists has strike > 0, a calendar date as maturity
\* and notional > 0; a constructor call with strike <= 0, notional <= 0 or
\* a maturity that is missing or not a date raises ValueError and yields no
\* option.
C2_OptionInvariants ==
    /\ opt # NoneVal =>
           /\ opt.strike > 0
           /\ IsDate(opt.maturity)
           /\ opt.notional > 0
    /\ (/\ IsConstructor(call.fn)
        /\ Done
        /\ \/ call.args.strike <= 0
           \/ call.args.notional <= 0
           \/ ~IsDate(call.args.maturity))
           => (Raised(call.out, "ValueError") /\ opt = NoneVal)

\* C3: with strike > 0, notional > 0, a date as maturity and an OptionType
\* or one of its aliases as option_type, EuropeanOption(...) returns an
\* option of style EUROPEAN and AmericanOption(...) one of style AMERICAN;
\* no option has a style other than its variant's.
C3_StyleFixedByVariant ==
    /\ (/\ IsConstructor(call.fn)
        /\ Done
        /\ call.args.strike > 0
        /\ call.args.notional > 0
        /\ IsDate(call.args.maturity)
        /\ ValidOptionType(call.args.option_type))
           => /\ Returned(call.out)
              /\ call.out.val.type = call.fn
              /\ call.out.val.style = StyleOf(call.fn)
              /\ opt = call.out.val
    /\ (IsConstructor(call.fn) /\ Returned(call.out))
           => call.out.val.style = StyleOf(call.out.val.type)
    /\ opt # NoneVal => opt.style = StyleOf(opt.type)

\* C3: AmericanOption has been built from the alias " Call<tab>"
C3_Witness ==
    /\ call.fn = "AmericanOption"
    /\ call.args.option_type = Str(<<" ", "C", "a", "l", "l", "\t">>)
    /\ Returned(call.out)
    /\ opt.option_type = CALL
    /\ opt.style = AMERICAN

=============================================================================
